---------------------------- MODULE Spec2Model ----------------------------
(***************************************************************************)
(* Model of client/ayon_deadline/plugins/publish/global/                   *)
(* submit_publish_job.py: the plugin ProcessSubmittedJobOnFarm (process,   *)
(* _submit_deadline_post_job, _get_publish_folder) and the helper          *)
(* get_resource_files.                                                     *)
(*                                                                         *)
(* Python values are encoded as follows.  An optional value (a dict key    *)
(* that may be missing, or a value that may be None) is a tuple: <<>> is   *)
(* None / missing, <<v>> is the value v.  A farm job id is a tuple         *)
(* <<kind, n>>; the empty id "" is <<>>.  A dict with formatted integer    *)
(* keys (JobDependency0.., EnvironmentKeyValue0..) is a function from the  *)
(* integer to the entry.                                                   *)
(*                                                                         *)
(* The farm webservice, the tracking service, the versioning policy, the   *)
(* anatomy templates and the file system are outside the repository: each  *)
(* call of them is a step whose outcome is chosen among the outcomes of    *)
(* their interface.                                                        *)
(***************************************************************************)
EXTENDS Integers, Sequences, FiniteSets, TLC

VARIABLES
    instance,          \* instance.data of the render instance (kept between calls)
    plugin,            \* plugin-level attributes deadline_priority, deadline_pool, ...
    environ,           \* os.environ
    latest_version,    \* tracking service: last version of the product, or None
    versioning_start,  \* versioning policy: the configured start version
    pc,                \* position of the current process() call
    run,               \* number of the current process() call on this instance
    popped,            \* value returned by instance.data.pop("deadlineSubmissionJob", None)
    render_job,        \* local render_job of process()
    fabricated,        \* the "Faking job data" branch was taken in this call
    override_version,  \* local override_version of _submit_deadline_post_job
    version_entity,    \* local version_entity of _get_publish_folder
    trackingCalls,     \* calls of ayon_api.get_last_version_by_product_name in this call
    versioningCalls,   \* calls of get_versioning_start in this call
    template_version,  \* template_data["version"] the directory template is formatted with
    payload,           \* payload["JobInfo"] built in this call, or None
    postCount,         \* calls of requests_post in this call
    response,          \* response of requests_post in this call, or None
    deadline_publish_job_id, \* value returned by _submit_deadline_post_job, or None
    metaWritten,       \* json.dump to the metadata file completed in this call
    metadataFile,      \* content of the metadata file on disk, or None
    farmJobs,          \* JobInfo of every job the farm accepted, in order
    error,             \* exception that ended this call
    resources,         \* get_resource_files: argument resources
    frame_range,       \* get_resource_files: argument frame_range, or None
    collected,         \* get_resource_files: returned list
    resState           \* get_resource_files: "unused", "input", "returned" or "asserted"

procVars == <<instance, plugin, environ, latest_version, versioning_start, pc,
              run, popped, render_job, fabricated, override_version,
              version_entity, trackingCalls, versioningCalls, template_version,
              payload, postCount, response, deadline_publish_job_id,
              metaWritten, metadataFile, farmJobs, error>>
resVars == <<resources, frame_range, collected, resState>>
vars == <<procVars, resVars>>

-----------------------------------------------------------------------------
(* Bounds of the model.                                                    *)
MaxRuns == 2
MaxJobs == 2
MaxVersion == 2
MaxLatest == 2
MaxStart == 1
MaxEnvSet == 2
MaxFiles == 3
MaxRange == 2

-----------------------------------------------------------------------------
(* Python values.                                                          *)
None == <<>>
Some(v) == <<v>>
Val(o) == o[1]

\* bool(x) of an optional int, str, bool or list
TruthyInt(o) == o # None /\ Val(o) # 0
TruthyStr(o) == o # None /\ Val(o) # ""
TruthyBool(o) == o # None /\ Val(o) = TRUE
TruthyList(o) == o # None /\ Val(o) # <<>>

SeqRange(s) == {s[i] : i \in 1..Len(s)}

NoError == [type |-> "", message |-> ""]
Raised(t, m) == [type |-> t, message |-> m]

-----------------------------------------------------------------------------
(* Class attributes and constants of the source.                           *)
environ_keys ==
    <<"FTRACK_API_USER", "FTRACK_API_KEY", "FTRACK_SERVER", "AYON_APP_NAME",
      "AYON_USERNAME", "AYON_SG_USERNAME", "KITSU_LOGIN", "KITSU_PWD">>

DefaultPriority == 50
DefaultVersion == 1

\* the publish context: instance.context.data
context ==
    [projectName |-> "proj", folderPath |-> "/shots/sh010", task |-> "comp",
     user |-> "artist", currentFile |-> "scene_v001", deadlineUser |-> "artist"]


-----------------------------------------------------------------------------
(* Input domains.                                                          *)

\* ids of farm jobs: <<kind, n>>
JobIds(kind, n) == [i \in 1..n |-> <<kind, i>>]

\* instance.data["deadlineSubmissionJob"] as returned by the render submission
RealJob(id) ==
    [Props |-> [Batch |-> "render_batch", User |-> "render_user"], id |-> id]

FarmVals == {None, Some(FALSE), Some(TRUE)}
JobVals == {None, Some(RealJob(None)), Some(RealJob(Some(<<"render", 1>>)))}
TileVals == {None, Some(FALSE), Some(TRUE)}
AssemblyVals == {None} \cup {Some(JobIds("assembly", n)) : n \in 0..MaxJobs}
BakingVals == {None} \cup {Some(JobIds("baking", n)) : n \in 0..MaxJobs}
UrlVals == {"", "http://deadline:8082"}
VersionVals == {None} \cup {Some(v) : v \in 0..MaxVersion}
LatestVals == {None} \cup {Some(v) : v \in 1..MaxLatest}
StartVals == 0..MaxStart
PriorityVals == {None, Some(0), Some(30)}
OverridePriorityVals == {None, Some(0), Some(70)}
OverrideStrVals == {"", "farm"}
InstanceStrVals == {None, Some("inst")}
EnvSetVals == {"", "artist", "other"}

EnvNames ==
    SeqRange(environ_keys)
        \cup {"AYON_BUNDLE_NAME", "AYON_DEFAULT_SETTINGS_VARIANT", "PATH"}

\* the process environment with none of environ_keys set
BaseEnviron ==
    [n \in EnvNames |->
        CASE n = "AYON_BUNDLE_NAME" -> Some("bundle")
          [] n = "AYON_DEFAULT_SETTINGS_VARIANT" -> Some("production")
          [] n = "PATH" -> Some("/usr/bin")
          [] OTHER -> None]

DefaultInstance ==
    [farm |-> Some(TRUE),
     productName |-> "renderMain",
     jobBatchName |-> "tile_batch",
     deadlineSubmissionJob |-> Some(RealJob(Some(<<"render", 1>>))),
     tileRendering |-> None,
     assemblySubmissionJobs |-> None,
     bakingSubmissionJobs |-> None,
     version |-> Some(DefaultVersion),
     priority |-> None,
     primaryPool |-> None,
     group |-> None,
     department |-> None,
     folderEntity |-> Some("folder-id"),
     deadline |-> [url |-> "http://deadline:8082"]]

DefaultPlugin ==
    [deadline_department |-> "", deadline_pool |-> "", deadline_group |-> "",
     deadline_priority |-> None]

\* inputs that decide the control flow of process()
ControlInputs ==
    /\ \E f \in FarmVals, j \in JobVals, t \in TileVals, a \in AssemblyVals,
          b \in BakingVals, u \in UrlVals :
          instance = [DefaultInstance EXCEPT
                          !.farm = f, !.deadlineSubmissionJob = j,
                          !.tileRendering = t, !.assemblySubmissionJobs = a,
                          !.bakingSubmissionJobs = b, !.deadline = [url |-> u]]
    /\ plugin = DefaultPlugin
    /\ environ = BaseEnviron
    /\ latest_version = None
    /\ versioning_start = DefaultVersion

\* inputs of the version resolution
VersionInputs ==
    /\ \E v \in VersionVals, e \in {None, Some("folder-id")} :
          instance = [DefaultInstance EXCEPT !.version = v, !.folderEntity = e]
    /\ plugin = DefaultPlugin
    /\ environ = BaseEnviron
    /\ latest_version \in LatestVals
    /\ versioning_start \in StartVals

\* inputs of the payload's Priority, Pool, Group and Department
PayloadInputs ==
    /\ \E p \in PriorityVals, pool \in InstanceStrVals, g \in InstanceStrVals,
          d \in InstanceStrVals :
          instance = [DefaultInstance EXCEPT
                          !.priority = p, !.primaryPool = pool, !.group = g,
                          !.department = d]
    /\ \E p \in OverridePriorityVals, pool \in OverrideStrVals,
          g \in OverrideStrVals, d \in OverrideStrVals :
          plugin = [deadline_department |-> d, deadline_pool |-> pool,
                    deadline_group |-> g, deadline_priority |-> p]
    /\ environ = BaseEnviron
    /\ latest_version = None
    /\ versioning_start = DefaultVersion

\* process environments with at most MaxEnvSet of environ_keys set
EnvInputs ==
    /\ instance = DefaultInstance
    /\ plugin = DefaultPlugin
    /\ \E S \in SUBSET SeqRange(environ_keys) :
          /\ Cardinality(S) <= MaxEnvSet
          /\ \E f \in [S -> EnvSetVals] :
                environ = [n \in EnvNames |->
                              IF n \in S THEN Some(f[n]) ELSE BaseEnviron[n]]
    /\ latest_version = None
    /\ versioning_start = DefaultVersion

\* state of a process() call that has not started
FreshCall ==
    /\ pc = "idle"
    /\ popped = None
    /\ render_job = None
    /\ fabricated = FALSE
    /\ override_version = None
    /\ version_entity = None
    /\ trackingCalls = 0
    /\ versioningCalls = 0
    /\ template_version = None
    /\ payload = None
    /\ postCount = 0
    /\ response = None
    /\ deadline_publish_job_id = None
    /\ metaWritten = FALSE
    /\ error = NoError

callVars == <<popped, render_job, fabricated, override_version, version_entity,
              trackingCalls, versioningCalls, template_version, payload,
              postCount, response, deadline_publish_job_id, metaWritten, error>>
inputVars == <<plugin, environ, latest_version, versioning_start>>

\* get_resource_files is not running
ResIdle ==
    /\ resources = <<>>
    /\ frame_range = None
    /\ collected = <<>>
    /\ resState = "unused"

Init ==
    /\ ControlInputs \/ VersionInputs \/ PayloadInputs \/ EnvInputs
    /\ FreshCall
    /\ run = 1
    /\ metadataFile = None
    /\ farmJobs = <<>>
    /\ ResIdle

-----------------------------------------------------------------------------
(* process(): from the farm check to the webservice url (lines 326-461).   *)

\* faulty variant of TileRenderingIsFalse: "not instance.data.get(...)"
TileRenderingIsFalse_Falsy(t) == ~TruthyBool(t)

\* instance.data.get("tileRendering") is False
TileRenderingIsFalse(t) == t = Some(FALSE)

\* the "Faking job data" record: Props.Batch and Props.User, no _id
FakeJob(inst) ==
    [Props |-> [Batch |-> IF TruthyList(inst.assemblySubmissionJobs)
                             THEN inst.jobBatchName
                             ELSE context.currentFile,
                User |-> context.deadlineUser],
     id |-> None]

\* faulty variant of SkipLocal: the farm check comes after the pop of the job
SkipLocal_AfterPop ==
    /\ pc = "idle"
    /\ ~TruthyBool(instance.farm)
    /\ instance' = [instance EXCEPT !.deadlineSubmissionJob = None]
    /\ pc' = "done"
    /\ UNCHANGED <<inputVars, run, callVars, metadataFile, farmJobs>>

\* if not instance.data.get("farm"): return
SkipLocal ==
    /\ pc = "idle"
    /\ ~TruthyBool(instance.farm)
    /\ pc' = "done"
    /\ UNCHANGED <<instance, inputVars, run, callVars, metadataFile, farmJobs>>

\* render_job is popped; without one and with tileRendering False the call asserts
AbortNoSubmission ==
    /\ pc = "idle"
    /\ TruthyBool(instance.farm)
    /\ instance.deadlineSubmissionJob = None
    /\ TileRenderingIsFalse(instance.tileRendering)
    /\ instance' = [instance EXCEPT !.deadlineSubmissionJob = None]
    /\ popped' = instance.deadlineSubmissionJob
    /\ error' = Raised("AssertionError",
                       "Cannot continue without valid Deadline submission.")
    /\ pc' = "failed"
    /\ UNCHANGED <<inputVars, run, render_job, fabricated, override_version,
                   version_entity, trackingCalls, versioningCalls,
                   template_version, payload, postCount, response,
                   deadline_publish_job_id, metaWritten, metadataFile, farmJobs>>

\* faulty variant of TakeRenderJob: instance.data.get in place of pop
TakeRenderJob_Get(urlOk) ==
    /\ pc = "idle"
    /\ TruthyBool(instance.farm)
    /\ ~(instance.deadlineSubmissionJob = None
            /\ TileRenderingIsFalse(instance.tileRendering))
    /\ (instance.deadline.url # "") = urlOk
    /\ instance' = instance
    /\ popped' = instance.deadlineSubmissionJob
    /\ fabricated' = (instance.deadlineSubmissionJob = None)
    /\ render_job' = IF instance.deadlineSubmissionJob = None
                        THEN Some(FakeJob(instance))
                        ELSE instance.deadlineSubmissionJob
    /\ UNCHANGED <<inputVars, run, override_version, version_entity,
                   trackingCalls, versioningCalls, template_version, payload,
                   postCount, response, deadline_publish_job_id, metaWritten,
                   metadataFile, farmJobs>>

\* the job reference step: pop, fake when missing, then the url assertion
TakeRenderJob(urlOk) ==
    /\ pc = "idle"
    /\ TruthyBool(instance.farm)
    /\ ~(instance.deadlineSubmissionJob = None
            /\ TileRenderingIsFalse(instance.tileRendering))
    /\ (instance.deadline.url # "") = urlOk
    /\ instance' = [instance EXCEPT !.deadlineSubmissionJob = None]
    /\ popped' = instance.deadlineSubmissionJob
    /\ fabricated' = (instance.deadlineSubmissionJob = None)
    /\ render_job' = IF instance.deadlineSubmissionJob = None
                        THEN Some(FakeJob(instance))
                        ELSE instance.deadlineSubmissionJob
    /\ UNCHANGED <<inputVars, run, override_version, version_entity,
                   trackingCalls, versioningCalls, template_version, payload,
                   postCount, response, deadline_publish_job_id, metaWritten,
                   metadataFile, farmJobs>>

\* assert self.deadline_url fails
AbortNoUrl ==
    /\ TakeRenderJob(FALSE)
    /\ error' = Raised("AssertionError", "Requires Deadline Webservice URL")
    /\ pc' = "failed"

\* process() calls _submit_deadline_post_job
EnterSubmit ==
    /\ TakeRenderJob(TRUE)
    /\ error' = error
    /\ pc' = "folder"

-----------------------------------------------------------------------------
(* _get_publish_folder and its call (lines 179-192, 529-575).              *)

\* lines 179-182: the version of the instance, unless it is 1
OverrideVersion(instance_version) ==
    IF instance_version # Some(DefaultVersion) THEN instance_version ELSE None

\* line 531: if not version
VersionIsUnset(version) == ~TruthyInt(version)

\* lines 531-551: [version, version_entity, tracking, versioning]
ResolveVersion(version, folder_entity) ==
    IF VersionIsUnset(version)
    THEN LET entity == IF folder_entity # None THEN latest_version ELSE None
             tracking == IF folder_entity # None THEN 1 ELSE 0
         IN  IF entity # None
             THEN [version |-> Val(entity) + 1, version_entity |-> entity,
                   tracking |-> tracking, versioning |-> 0]
             ELSE [version |-> versioning_start, version_entity |-> entity,
                   tracking |-> tracking, versioning |-> 1]
    ELSE [version |-> Val(version), version_entity |-> None,
          tracking |-> 0, versioning |-> 0]

\* the resolution of the version, then format_strict of the directory template
GetPublishFolder(formatOk) ==
    /\ pc = "folder"
    /\ LET version == OverrideVersion(instance.version)
           r == ResolveVersion(version, instance.folderEntity)
       IN  /\ override_version' = version
           /\ version_entity' = r.version_entity
           /\ trackingCalls' = trackingCalls + r.tracking
           /\ versioningCalls' = versioningCalls + r.versioning
           /\ template_version' = Some(r.version)
    /\ pc' = IF formatOk THEN "post" ELSE "failed"
    /\ error' = IF formatOk THEN error
                ELSE Raised("TemplateUnfilled", "directory")
    /\ UNCHANGED <<instance, inputVars, run, popped, render_job, fabricated,
                   payload, postCount, response, deadline_publish_job_id,
                   metaWritten, metadataFile, farmJobs>>

FolderResolved == GetPublishFolder(TRUE)

FolderFormatFails == GetPublishFolder(FALSE)

-----------------------------------------------------------------------------
(* _submit_deadline_post_job: environment, payload and POST (196-312).     *)

\* a dict kept in insertion order: a sequence of <<key, value>>
DictKeys(d) == {d[i][1] : i \in 1..Len(d)}
DictSet(d, k, v) ==
    IF k \in DictKeys(d)
    THEN [i \in 1..Len(d) |-> IF d[i][1] = k THEN <<k, v>> ELSE d[i]]
    ELSE Append(d, <<k, v>>)

\* lines 199-212: the environment dict literal
FixedEnvironment ==
    << <<"AYON_PROJECT_NAME", context.projectName>>,
       <<"AYON_FOLDER_PATH", context.folderPath>>,
       <<"AYON_TASK_NAME", context.task>>,
       <<"AYON_USERNAME", context.user>>,
       <<"AYON_LOG_NO_COLORS", "1">>,
       <<"AYON_IN_TESTS", "0">>,
       <<"AYON_PUBLISH_JOB", "1">>,
       <<"AYON_RENDER_JOB", "0">>,
       <<"AYON_REMOTE_PUBLISH", "0">>,
       <<"AYON_BUNDLE_NAME", Val(environ["AYON_BUNDLE_NAME"])>>,
       <<"AYON_DEFAULT_SETTINGS_VARIANT",
         Val(environ["AYON_DEFAULT_SETTINGS_VARIANT"])>> >>

\* lines 215-217: for env_key in keys: if os.getenv(env_key): environment[...] = ...
RECURSIVE AddEnvironKeys(_, _)
AddEnvironKeys(environment, keys) ==
    IF keys = <<>> THEN environment
    ELSE LET env_key == Head(keys)
             next == IF TruthyStr(environ[env_key])
                        THEN DictSet(environment, env_key, Val(environ[env_key]))
                        ELSE environment
         IN  AddEnvironKeys(next, Tail(keys))

Environment == AddEnvironKeys(FixedEnvironment, environ_keys)

\* lines 288-296: "EnvironmentKeyValue%d" % index -> "key=value"
EnvironmentKeyValue(environment) ==
    [index \in 0..(Len(environment) - 1) |-> environment[index + 1]]

\* line 219
Priority(deadline_priority, inst) ==
    IF TruthyInt(deadline_priority) THEN deadline_priority
    ELSE IF inst.priority = None THEN Some(DefaultPriority) ELSE inst.priority

\* line 254
Pool(deadline_pool, inst) ==
    IF deadline_pool # "" THEN Some(deadline_pool) ELSE inst.primaryPool

\* faulty variant of Group: falls back to a value of the instance
Group_InstanceFallback(deadline_group, inst) ==
    IF deadline_group # "" THEN Some(deadline_group) ELSE inst.group

\* line 253
Group(deadline_group, inst) == Some(deadline_group)

\* line 248
Department(deadline_department, inst) == Some(deadline_department)

\* job.get("_id")
TruthyId(id) == id # None /\ Val(id) # <<>>

\* faulty variant of DependencyIds: "if" in place of "elif"
DependencyIds_Mixed(inst, job) ==
    (IF TruthyBool(inst.tileRendering)
        THEN Val(inst.assemblySubmissionJobs) ELSE <<>>)
    \o (IF TruthyList(inst.bakingSubmissionJobs)
           THEN Val(inst.bakingSubmissionJobs) ELSE <<>>)
    \o (IF TruthyId(job.id) THEN <<Val(job.id)>> ELSE <<>>)

\* lines 269-286: the ids the publish job depends on
DependencyIds(inst, job) ==
    IF TruthyBool(inst.tileRendering) THEN Val(inst.assemblySubmissionJobs)
    ELSE IF TruthyList(inst.bakingSubmissionJobs)
         THEN Val(inst.bakingSubmissionJobs)
    ELSE IF TruthyId(job.id) THEN <<Val(job.id)>>
    ELSE <<>>

\* "JobDependency{}".format(job_index) -> id
JobDependency(ids) == [job_index \in 0..(Len(ids) - 1) |-> ids[job_index + 1]]

\* lines 240-298: payload["JobInfo"]
JobInfo(inst, job) ==
    [Plugin |-> "Ayon",
     BatchName |-> job.Props.Batch,
     Name |-> <<"Publish - ", inst.productName>>,
     UserName |-> job.Props.User,
     Department |-> Department(plugin.deadline_department, inst),
     ChunkSize |-> 1,
     Priority |-> Priority(plugin.deadline_priority, inst),
     Group |-> Group(plugin.deadline_group, inst),
     Pool |-> Pool(plugin.deadline_pool, inst),
     OutputDirectory0 |-> <<"publish", inst.productName, Val(template_version)>>,
     JobDependency |-> JobDependency(DependencyIds(inst, job)),
     EnvironmentKeyValue |-> EnvironmentKeyValue(Environment)]

\* answers of the farm to POST {url}/api/jobs: a job with its _id, or an error
Responses ==
    {[ok |-> TRUE, text |-> "{job}", id |-> Some(<<"publish", 1>>)],
     [ok |-> FALSE, text |-> "internal error", id |-> None],
     [ok |-> FALSE, text |-> "", id |-> None]}

\* faulty variant of ResponseOk: the status is not looked at
ResponseOk_Always(resp) == TRUE

\* line 307: response.ok
ResponseOk(resp) == resp.ok

\* line 272: iterating instance.data.get("assemblySubmissionJobs") that is None
PayloadTypeError ==
    /\ pc = "post"
    /\ TruthyBool(instance.tileRendering)
    /\ instance.assemblySubmissionJobs = None
    /\ error' = Raised("TypeError", "'NoneType' object is not iterable")
    /\ pc' = "failed"
    /\ UNCHANGED <<instance, inputVars, run, popped, render_job, fabricated,
                   override_version, version_entity, trackingCalls,
                   versioningCalls, template_version, payload, postCount,
                   response, deadline_publish_job_id, metaWritten,
                   metadataFile, farmJobs>>

\* the payload is built and posted once
Post ==
    /\ pc = "post"
    /\ ~(TruthyBool(instance.tileRendering)
            /\ instance.assemblySubmissionJobs = None)
    /\ payload' = Some(JobInfo(instance, Val(render_job)))
    /\ postCount' = postCount + 1
    /\ UNCHANGED <<instance, inputVars, run, popped, render_job, fabricated,
                   override_version, version_entity, trackingCalls,
                   versioningCalls, template_version, metaWritten,
                   metadataFile>>

\* requests_post raises (timeout, connection error): no response
PostRaises ==
    /\ Post
    /\ response' = response
    /\ farmJobs' = farmJobs
    /\ deadline_publish_job_id' = deadline_publish_job_id
    /\ error' = Raised("ConnectionError", "")
    /\ pc' = "failed"

\* lines 307-308: raise Exception(response.text)
PostRejected ==
    /\ Post
    /\ \E resp \in Responses :
          /\ ~ResponseOk(resp)
          /\ response' = Some(resp)
          /\ farmJobs' = IF resp.ok THEN Append(farmJobs, Val(payload')) ELSE farmJobs
          /\ error' = Raised("Exception", resp.text)
    /\ deadline_publish_job_id' = deadline_publish_job_id
    /\ pc' = "failed"

\* lines 310-312: the id of the publish job is returned
PostAccepted ==
    /\ Post
    /\ \E resp \in Responses :
          /\ ResponseOk(resp)
          /\ response' = Some(resp)
          /\ farmJobs' = IF resp.ok THEN Append(farmJobs, Val(payload')) ELSE farmJobs
          /\ deadline_publish_job_id' = resp.id
    /\ error' = error
    /\ pc' = "write"

-----------------------------------------------------------------------------
(* process(): the metadata file (lines 466-497).                           *)

\* lines 471-486: the publish job description
PublishJob ==
    [folderPath |-> context.folderPath,
     user |-> context.user,
     job |-> render_job,
     instances |-> <<instance.productName>>,
     deadline_publish_job_id |->
         IF TruthyId(deadline_publish_job_id) THEN deadline_publish_job_id
         ELSE None]

\* with open(metadata_path, "w") as f: json.dump(...)
WriteMetadata ==
    /\ pc = "write"
    /\ metadataFile' = Some(PublishJob)
    /\ metaWritten' = TRUE
    /\ pc' = "done"
    /\ UNCHANGED <<instance, inputVars, run, popped, render_job, fabricated,
                   override_version, version_entity, trackingCalls,
                   versioningCalls, template_version, payload, postCount,
                   response, deadline_publish_job_id, farmJobs, error>>

\* open(metadata_path, "w") raises
WriteFails ==
    /\ pc = "write"
    /\ error' = Raised("OSError", "metadata_path")
    /\ pc' = "failed"
    /\ UNCHANGED <<instance, inputVars, run, popped, render_job, fabricated,
                   override_version, version_entity, trackingCalls,
                   versioningCalls, template_version, payload, postCount,
                   response, deadline_publish_job_id, metaWritten,
                   metadataFile, farmJobs>>

\* process() is called again on the same instance
Reinvoke ==
    /\ pc \in {"done", "failed"}
    /\ run < MaxRuns
    /\ run' = run + 1
    /\ pc' = "idle"
    /\ popped' = None
    /\ render_job' = None
    /\ fabricated' = FALSE
    /\ override_version' = None
    /\ version_entity' = None
    /\ trackingCalls' = 0
    /\ versioningCalls' = 0
    /\ template_version' = None
    /\ payload' = None
    /\ postCount' = 0
    /\ response' = None
    /\ deadline_publish_job_id' = None
    /\ metaWritten' = FALSE
    /\ error' = NoError
    /\ UNCHANGED <<instance, inputVars, metadataFile, farmJobs>>

Next ==
    \/ (SkipLocal /\ UNCHANGED resVars)
    \/ (AbortNoSubmission /\ UNCHANGED resVars)
    \/ (AbortNoUrl /\ UNCHANGED resVars)
    \/ (EnterSubmit /\ UNCHANGED resVars)
    \/ (FolderResolved /\ UNCHANGED resVars)
    \/ (FolderFormatFails /\ UNCHANGED resVars)
    \/ (PayloadTypeError /\ UNCHANGED resVars)
    \/ (PostRaises /\ UNCHANGED resVars)
    \/ (PostRejected /\ UNCHANGED resVars)
    \/ (PostAccepted /\ UNCHANGED resVars)
    \/ (WriteMetadata /\ UNCHANGED resVars)
    \/ (WriteFails /\ UNCHANGED resVars)
    \/ (Reinvoke /\ UNCHANGED resVars)

Spec == Init /\ [][Next]_vars

-----------------------------------------------------------------------------
(* Properties of process() and _submit_deadline_post_job.                  *)

Farm == TruthyBool(instance.farm)
Ended == pc \in {"done", "failed"}
Built == payload # None
Accepted == response # None /\ Val(response).ok

\* the entries JobDependency0..n-1 are exactly the ids, in order
DependenciesAre(ids) ==
    LET deps == Val(payload).JobDependency
    IN  /\ DOMAIN deps = 0..(Len(ids) - 1)
        /\ \A i \in DOMAIN deps : deps[i] = ids[i + 1]

\* all entries come from one source (assembly, baking or render job)
OneSource ==
    LET deps == Val(payload).JobDependency
    IN  \A i, j \in DOMAIN deps : deps[i][1] = deps[j][1]

\* C1 as stated: the dependencies are the assembly ids if any exist on the
\* instance, else the baking ids if any exist, else the _id of the render
\* job; entries of two sources are never mixed.
C1_DependenciesByExistingIds ==
    Built =>
        /\ OneSource
        /\ DependenciesAre(
               IF TruthyList(instance.assemblySubmissionJobs)
                   THEN Val(instance.assemblySubmissionJobs)
               ELSE IF TruthyList(instance.bakingSubmissionJobs)
                   THEN Val(instance.bakingSubmissionJobs)
               ELSE IF TruthyId(Val(render_job).id)
                   THEN <<Val(Val(render_job).id)>>
               ELSE <<>>)

\* C1 amended: the first source is chosen by the tileRendering flag, not by
\* the existence of assembly ids: with tileRendering truthy the dependencies
\* are the assembly ids (possibly none) and nothing else; otherwise the
\* baking ids if any exist; otherwise the _id of the render job if it has
\* one.  Entries of two sources are never mixed.
C1_DependenciesByTileFlag ==
    Built =>
        /\ OneSource
        /\ DependenciesAre(
               IF TruthyBool(instance.tileRendering)
                   THEN Val(instance.assemblySubmissionJobs)
               ELSE IF TruthyList(instance.bakingSubmissionJobs)
                   THEN Val(instance.bakingSubmissionJobs)
               ELSE IF TruthyId(Val(render_job).id)
                   THEN <<Val(Val(render_job).id)>>
               ELSE <<>>)

\* a payload built for a tile rendering instance that also has baking ids
\* and a render job with an _id: only the assembly ids are dependencies
C1_Witness ==
    /\ Built
    /\ TruthyBool(instance.tileRendering)
    /\ instance.assemblySubmissionJobs = Some(JobIds("assembly", MaxJobs))
    /\ TruthyList(instance.bakingSubmissionJobs)
    /\ TruthyId(Val(render_job).id)
    /\ DependenciesAre(JobIds("assembly", MaxJobs))

\* C2 as stated: a call on a farm instance ends either with the job accepted
\* by the farm and the metadata file written, or failed with neither.
C2_NoPartialSuccess ==
    (Farm /\ Ended) =>
        \/ (pc = "done" /\ Accepted /\ metaWritten)
        \/ (pc = "failed" /\ ~Accepted /\ ~metaWritten)

\* C3: the POST is made at most once per call; a non-success answer ends the
\* call with an error whose message is the response text and without the
\* metadata file; the metadata file is written only after a POST answered
\* with a success status and a job id.
C3_FarmErrorAborts ==
    /\ postCount <= 1
    /\ (response # None /\ ~Val(response).ok) =>
           /\ pc = "failed"
           /\ error = Raised("Exception", Val(response).text)
           /\ ~metaWritten
    /\ metaWritten =>
           /\ postCount = 1
           /\ Accepted
           /\ TruthyId(Val(response).id)
           /\ deadline_publish_job_id = Val(response).id

\* the farm answered "internal error": the call failed with that message and
\* no metadata file exists
C3_Witness ==
    /\ pc = "failed"
    /\ response # None
    /\ ~Val(response).ok
    /\ Val(response).text = "internal error"
    /\ error.message = "internal error"
    /\ postCount = 1
    /\ metadataFile = None

NoSubmissionError ==
    Raised("AssertionError", "Cannot continue without valid Deadline submission.")

C5_OverrideVersionUsed ==
    template_version # None =>
        /\ instance.version = Some(DefaultVersion) => override_version = None
        /\ (instance.version # None /\ instance.version # Some(DefaultVersion)) =>
               /\ override_version = instance.version
               /\ template_version = instance.version
               /\ trackingCalls = 0
               /\ versioningCalls = 0

\* C6 as stated: Priority is the plugin's deadline_priority whenever one is
\* configured (0 included), else the priority of the instance, else 50.
C6_PriorityPrecedence ==
    Built =>
        Val(payload).Priority =
            IF plugin.deadline_priority # None THEN plugin.deadline_priority
            ELSE IF instance.priority # None THEN instance.priority
            ELSE Some(DefaultPriority)

\* the value of a field with a fallback to the instance
OverrideOrInstance(override, value, field) ==
    /\ override # "" => field = Some(override)
    /\ (override = "" /\ value # None) => field = value

\* C7 as stated: Pool, Group and Department each take the plugin override
\* when it is non-empty and the value of the instance otherwise.
C7_FallbackForAllThree ==
    Built =>
        /\ OverrideOrInstance(plugin.deadline_pool, instance.primaryPool,
                              Val(payload).Pool)
        /\ OverrideOrInstance(plugin.deadline_group, instance.group,
                              Val(payload).Group)
        /\ OverrideOrInstance(plugin.deadline_department, instance.department,
                              Val(payload).Department)

\* C7 amended: Pool takes the plugin override when it is non-empty and the
\* primaryPool of the instance otherwise; Group and Department always take
\* the plugin-level value, empty or not, whatever the instance carries.
C7_FallbackForPoolOnly ==
    Built =>
        /\ Val(payload).Pool =
               IF plugin.deadline_pool # "" THEN Some(plugin.deadline_pool)
               ELSE instance.primaryPool
        /\ Val(payload).Group = Some(plugin.deadline_group)
        /\ Val(payload).Department = Some(plugin.deadline_department)

\* no override is set and the instance carries a pool, a group and a
\* department: only the pool reaches the payload
C7_Witness ==
    /\ Built
    /\ plugin.deadline_pool = ""
    /\ plugin.deadline_group = ""
    /\ plugin.deadline_department = ""
    /\ instance.primaryPool = Some("inst")
    /\ instance.group = Some("inst")
    /\ instance.department = Some("inst")
    /\ Val(payload).Pool = Some("inst")
    /\ Val(payload).Group = Some("")
    /\ Val(payload).Department = Some("")

\* the identity variables of the publish context
IdentityEnvironment ==
    {<<"AYON_PROJECT_NAME", context.projectName>>,
     <<"AYON_FOLDER_PATH", context.folderPath>>,
     <<"AYON_TASK_NAME", context.task>>,
     <<"AYON_USERNAME", context.user>>,
     <<"AYON_PUBLISH_JOB", "1">>}

\* C9 as stated: the forwarded variables are the fixed ones and the set
\* variables of environ_keys, nothing else; the identity values of the
\* publish context are the ones sent; the entries are numbered 0..n-1 with
\* one entry per variable.
C9_ForwardedEnvironment ==
    Built =>
        LET kv == Val(payload).EnvironmentKeyValue
            entries == {kv[i] : i \in DOMAIN kv}
            keys == {e[1] : e \in entries}
            allowed == {k \in SeqRange(environ_keys) : TruthyStr(environ[k])}
        IN  /\ DOMAIN kv = 0..(Cardinality(keys) - 1)
            /\ keys = DictKeys(FixedEnvironment) \cup allowed
            /\ IdentityEnvironment \subseteq entries
            /\ \A k \in allowed \ DictKeys(FixedEnvironment) :
                   <<k, Val(environ[k])>> \in entries

\* C10 as stated: without an explicit version the template version is
\* latest+1 when the tracking service returns a latest version and the start
\* version otherwise; the tracking service is asked at most once and the
\* versioning policy only when no latest version was found; with an explicit
\* version neither is consulted.
C10_AutoVersion ==
    template_version # None =>
        /\ trackingCalls <= 1
        /\ override_version = None =>
               /\ version_entity # None =>
                      /\ template_version = Some(Val(version_entity) + 1)
                      /\ versioningCalls = 0
               /\ version_entity = None =>
                      /\ template_version = Some(versioning_start)
                      /\ versioningCalls = 1
        /\ override_version # None =>
               /\ trackingCalls = 0
               /\ versioningCalls = 0

\* C11: while the instance is not marked for the farm (farm missing or
\* falsy), no step of process() changes instance.data, posts a job or writes
\* the metadata file: the call only returns.
C11_LocalInstanceSkipped ==
    [][(~Farm) =>
          /\ instance' = instance
          /\ farmJobs' = farmJobs
          /\ metadataFile' = metadataFile
          /\ postCount' = 0
          /\ payload' = None
          /\ ~metaWritten'
          /\ error' = NoError
          /\ pc' \in {"idle", "done"}]_vars

\* a call on an instance without farm mark has returned: the instance still
\* holds its deadlineSubmissionJob, nothing reached the farm or the disk
C11_Witness ==
    /\ ~Farm
    /\ pc = "done"
    /\ instance.deadlineSubmissionJob = Some(RealJob(Some(<<"render", 1>>)))
    /\ popped = None
    /\ postCount = 0
    /\ farmJobs = <<>>
    /\ metadataFile = None
    /\ error = NoError

\* the job depends on the render job: one of its JobDependencyN is a render id
DependsOnRenderJob(job_info) ==
    \E i \in DOMAIN job_info.JobDependency :
        job_info.JobDependency[i][1] = "render"

\* C12: once a call on a farm instance has passed the job reference step,
\* instance.data holds no deadlineSubmissionJob, however the call ends and in
\* every later call; so no payload built by a later call depends on the
\* render job, and at most one job accepted by the farm does.
C12_RenderJobConsumedOnce ==
    /\ (Farm /\ (pc # "idle" \/ run > 1)) =>
           instance.deadlineSubmissionJob = None
    /\ (run > 1 /\ Built) => ~DependsOnRenderJob(Val(payload))
    /\ Cardinality({i \in 1..Len(farmJobs) :
                       DependsOnRenderJob(farmJobs[i])}) <= 1

\* two calls on one instance were both accepted by the farm: the job of the
\* first depends on the render job, the job of the second, built on a
\* fabricated job record, does not
C12_Witness ==
    /\ run = 2
    /\ pc = "done"
    /\ fabricated
    /\ instance.deadlineSubmissionJob = None
    /\ Len(farmJobs) = 2
    /\ DependsOnRenderJob(farmJobs[1])
    /\ ~DependsOnRenderJob(farmJobs[2])

-----------------------------------------------------------------------------
(* get_resource_files (lines 26-50).                                       *)
(*                                                                         *)
(* A file name is head + index + tail with the same head and tail for all  *)
(* files; it is modelled by the digits of its index, so <<0, 1>> is        *)
(* "render.01.exr" and <<1>> is "render.1.exr".                            *)

DigitSet == {0, 1}
\* the file names: indexes of one or two digits
Names == UNION {[1..w -> DigitSet] : w \in {1, 2}}
\* frames a frame_range may name: frames of the names and one of no name
FrameVals == {0, 1, 10, 5}

RECURSIVE SeqsUpTo(_, _)
SeqsUpTo(S, n) ==
    IF n = 0 THEN {<<>>}
    ELSE LET shorter == SeqsUpTo(S, n - 1)
         IN  shorter \cup {Append(q, x) : q \in shorter, x \in S}

\* clique: int(index)
RECURSIVE IndexOf(_)
IndexOf(digits) ==
    IF digits = <<>> THEN 0
    ELSE 10 * IndexOf(SubSeq(digits, 1, Len(digits) - 1)) + digits[Len(digits)]

\* clique: the padding of an index is its length when it has a leading zero
\* (pattern (?P<index>(?P<padding>0*)\d+)), and 0 (unpadded) otherwise
Padding(digits) == IF Len(digits) > 1 /\ digits[1] = 0 THEN Len(digits) ELSE 0

\* str(index)
RECURSIVE Decimal(_)
Decimal(index) ==
    IF index < 10 THEN <<index>>
    ELSE Append(Decimal(index \div 10), index % 10)

\* '{0:0{1}d}'.format(index, padding)
RECURSIVE ZeroFill(_, _)
ZeroFill(digits, padding) ==
    IF Len(digits) >= padding THEN digits
    ELSE ZeroFill(<<0>> \o digits, padding)

Format(index, padding) == ZeroFill(Decimal(index), padding)

\* clique.assemble: minimum_items
MinimumItems == 2

\* clique.assemble: collection_map[(head, tail, padding)], the indexes by padding
IndexesWithPadding(files, padding) ==
    {IndexOf(f) : f \in {g \in SeqRange(files) : Padding(g) = padding}}

\* clique.assemble: the collections of the files.  The indexes of the unpadded
\* collection with the width of a padded collection are merged into it; the
\* unpadded collection is dropped when all its indexes went into one padded
\* collection; collections of fewer than minimum_items indexes are dropped.
Assemble(files) ==
    LET paddings == {Padding(f) : f \in SeqRange(files)}
        unpadded == IndexesWithPadding(files, 0)
        mergeable(p) == {i \in unpadded : Len(Decimal(i)) = p}
        padded == {[padding |-> p,
                    indexes |-> IndexesWithPadding(files, p) \cup mergeable(p)] :
                       p \in paddings \ {0}}
        fully_merged == \E p \in paddings \ {0} : mergeable(p) = unpadded
        all == padded \cup
                   (IF 0 \in paddings /\ ~fully_merged
                       THEN {[padding |-> 0, indexes |-> unpadded]} ELSE {})
    IN  {c \in all : Cardinality(c.indexes) >= MinimumItems}

\* faulty variant of RemoveFrames: the frames outside frame_range are removed
RemoveFrames_KeepInside(indexes, frames) ==
    indexes \cap SeqRange(frames)

\* lines 45-48: for frame in frame_range: remove it from the indexes if present
RECURSIVE RemoveFrames(_, _)
RemoveFrames(indexes, frames) ==
    IF frames = <<>> THEN indexes
    ELSE LET frame == Head(frames)
         IN  IF frame \notin indexes
             THEN RemoveFrames(indexes, Tail(frames))
             ELSE RemoveFrames(indexes \ {frame}, Tail(frames))

\* list(collection): the members in ascending order of index
RECURSIVE Members(_, _)
Members(indexes, padding) ==
    IF indexes = {} THEN <<>>
    ELSE LET first == CHOOSE i \in indexes : \A j \in indexes : i <= j
         IN  <<Format(first, padding)>> \o Members(indexes \ {first}, padding)

\* get_resource_files returns
GetResourceFiles ==
    /\ resState = "input"
    /\ Cardinality(Assemble(resources)) = 1
    /\ LET res_collection == CHOOSE c \in Assemble(resources) : TRUE
           indexes == IF frame_range # None
                         THEN RemoveFrames(res_collection.indexes, Val(frame_range))
                         ELSE res_collection.indexes
       IN  collected' = Members(indexes, res_collection.padding)
    /\ resState' = "returned"
    /\ UNCHANGED <<resources, frame_range>>

\* assert len(res_collections) == 1, "Multiple collections found"
GetResourceFilesAsserts ==
    /\ resState = "input"
    /\ Cardinality(Assemble(resources)) # 1
    /\ resState' = "asserted"
    /\ UNCHANGED <<resources, frame_range, collected>>

InitRes ==
    /\ resources \in SeqsUpTo(Names, MaxFiles)
    /\ frame_range \in {None} \cup {Some(r) : r \in SeqsUpTo(FrameVals, MaxRange)}
    /\ collected = <<>>
    /\ resState = "input"
    /\ instance = DefaultInstance
    /\ plugin = DefaultPlugin
    /\ environ = BaseEnviron
    /\ latest_version = None
    /\ versioning_start = DefaultVersion
    /\ FreshCall
    /\ run = 1
    /\ metadataFile = None
    /\ farmJobs = <<>>

NextRes ==
    \/ (GetResourceFiles /\ UNCHANGED procVars)
    \/ (GetResourceFilesAsserts /\ UNCHANGED procVars)

SpecRes == InitRes /\ [][NextRes]_vars

\* all files follow one numbering: unpadded, or of one width
OneNumbering(files) ==
    \/ \A f \in SeqRange(files) : Padding(f) = 0
    \/ \E w \in {Len(f) : f \in SeqRange(files)} :
          \A f \in SeqRange(files) : Len(f) = w

Excluded(frame) ==
    frame_range # None /\ frame \in SeqRange(Val(frame_range))

=============================================================================
